---- MODULE Spec2Model ----
(***************************************************************************)
(* Verification model of keyword-extraction-rs: the co-occurrence matrix   *)
(* (src/co_occurrence.rs), the ranking utility (src/common/functions.rs)   *)
(* and the TextRank engine (src/text_rank/text_rank_logic.rs).             *)
(*                                                                         *)
(* All scores of the program are f32.  An f32 is modelled bit-exactly as a *)
(* record [cls, m, e]: cls = "num" is the finite value m * 2^e with        *)
(* 2^23 <= |m| < 2^24 (or m = 0, e = 0 for zero), cls = "nan" is NaN and   *)
(* cls = "inf" is an infinity of sign m.  Arithmetic rounds to nearest,    *)
(* ties to even, as IEEE 754 binary32 does.  The exponent is unbounded:    *)
(* no value of the model comes near the overflow or subnormal range.  The  *)
(* sign of a zero is not modelled (no operation of the model divides a     *)
(* non-zero by zero).                                                      *)
(***************************************************************************)
EXTENDS Integers, Sequences, FiniteSets, TLC

\* ------------------------------------------------------------------ f32

\* Number of significand bits of an f32 (the type of every score).
MantBits == 24

NaN == [cls |-> "nan", m |-> 0, e |-> 0]
PosInf == [cls |-> "inf", m |-> 1, e |-> 0]
NegInf == [cls |-> "inf", m |-> -1, e |-> 0]
Zero == [cls |-> "num", m |-> 0, e |-> 0]

Abs(x) == IF x < 0 THEN -x ELSE x
Sgn(x) == IF x < 0 THEN -1 ELSE IF x > 0 THEN 1 ELSE 0

\* Number of bits of a magnitude 0 < n < 2^30.
BitLen(n) == CHOOSE b \in 1..30 : 2^(b-1) <= n /\ n < 2^b

\* The f32 nearest to sign * (mag + f) * 2^exp, where 0 <= f < 1 and
\* sticky = 1 iff f > 0 (ties to even).  mag > 0 carries at least
\* MantBits + 1 bits whenever sticky = 1.
RoundNE(sign, mag, exp, sticky) ==
    LET bits == BitLen(mag)
    IN IF bits <= MantBits
       THEN [cls |-> "num", m |-> sign * mag * 2^(MantBits - bits),
                            e |-> exp - (MantBits - bits)]
       ELSE LET k == bits - MantBits
                q == mag \div 2^k
                r == mag % 2^k
                half == 2^(k-1)
                up == \/ r > half
                      \/ r = half /\ sticky = 1
                      \/ r = half /\ sticky = 0 /\ q % 2 = 1
                q2 == IF up THEN q + 1 ELSE q
            IN IF q2 = 2^MantBits
               THEN [cls |-> "num", m |-> sign * 2^(MantBits-1), e |-> exp + k + 1]
               ELSE [cls |-> "num", m |-> sign * q2, e |-> exp + k]

\* An integer count as f32 (exact below 2^24).
FromNat(n) == IF n = 0 THEN Zero ELSE RoundNE(1, n, 0, 0)

\* a + b of two finite f32 with a's exponent the larger: guard, round and
\* sticky bits below the larger operand's last place.
AddOrdered(a, b) ==
    LET d == a.e - b.e
    IN IF d >= MantBits + 2 THEN a
       ELSE LET A == Abs(a.m) * 8
                bm == Abs(b.m) * 8
                B == bm \div 2^d
                st == IF bm % 2^d # 0 THEN 1 ELSE 0
                S == IF Sgn(a.m) = Sgn(b.m) THEN A + B ELSE A - B - st
            IN IF S = 0 THEN Zero
               ELSE RoundNE(Sgn(a.m) * Sgn(S), Abs(S), a.e - 3, st)

\* f32 addition.
Fadd(a, b) ==
    IF a.cls = "nan" \/ b.cls = "nan" THEN NaN
    ELSE IF a.cls = "inf" /\ b.cls = "inf"
         THEN (IF a.m = b.m THEN a ELSE NaN)
    ELSE IF a.cls = "inf" THEN a
    ELSE IF b.cls = "inf" THEN b
    ELSE IF a.m = 0 THEN b
    ELSE IF b.m = 0 THEN a
    ELSE IF a.e >= b.e THEN AddOrdered(a, b) ELSE AddOrdered(b, a)

Fneg(a) == [a EXCEPT !.m = -a.m]

\* f32 subtraction.
Fsub(a, b) == Fadd(a, Fneg(b))

\* f32 absolute value.
Fabs(a) == [a EXCEPT !.m = Abs(a.m)]

\* f32 multiplication: the 48-bit product of the significands in 12-bit
\* limbs, then rounded.
Fmul(a, b) ==
    IF a.cls = "nan" \/ b.cls = "nan" THEN NaN
    ELSE IF a.cls = "inf" \/ b.cls = "inf"
         THEN (IF a.m = 0 \/ b.m = 0 THEN NaN
               ELSE IF Sgn(a.m) = Sgn(b.m) THEN PosInf ELSE NegInf)
    ELSE IF a.m = 0 \/ b.m = 0 THEN Zero
    ELSE LET x == Abs(a.m)
             y == Abs(b.m)
             xh == x \div 4096
             xl == x % 4096
             yh == y \div 4096
             yl == y % 4096
             lo == xl * yl
             mid == xh * yl + xl * yh + (lo \div 4096)
             top == xh * yh + (mid \div 4096)
             low24 == (mid % 4096) * 4096 + (lo % 4096)
             mag == top * 4 + (low24 \div 2^22)
             st == IF low24 % 2^22 # 0 THEN 1 ELSE 0
         IN RoundNE(Sgn(a.m) * Sgn(b.m), mag, a.e + b.e + 22, st)

\* f32 division: 26 quotient bits by long division, then rounded.  0/0 is
\* NaN and x/0 an infinity, as in IEEE 754.
Fdiv(a, b) ==
    IF a.cls = "nan" \/ b.cls = "nan" THEN NaN
    ELSE IF a.cls = "inf" THEN (IF b.cls = "inf" THEN NaN
                                ELSE IF Sgn(a.m) * Sgn(b.m) < 0 THEN NegInf ELSE PosInf)
    ELSE IF b.cls = "inf" THEN Zero
    ELSE IF b.m = 0 THEN (IF a.m = 0 THEN NaN
                          ELSE IF a.m > 0 THEN PosInf ELSE NegInf)
    ELSE IF a.m = 0 THEN Zero
    ELSE LET x == Abs(a.m)
             y == Abs(b.m)
             q0 == x \div y
             r0 == x % y
             q1 == q0 * 64 + (r0 * 64) \div y
             r1 == (r0 * 64) % y
             q2 == q1 * 64 + (r1 * 64) \div y
             r2 == (r1 * 64) % y
             q3 == q2 * 64 + (r2 * 64) \div y
             r3 == (r2 * 64) % y
             q4 == q3 * 64 + (r3 * 64) \div y
             r4 == (r3 * 64) % y
             q5 == q4 * 4 + (r4 * 4) \div y
             r5 == (r4 * 4) % y
             st == IF r5 # 0 THEN 1 ELSE 0
         IN RoundNE(Sgn(a.m) * Sgn(b.m), q5, a.e - b.e - 26, st)

\* f32 partial_cmp: "less", "equal", "greater", or "none" when either is NaN.
PartialCmp(a, b) ==
    IF a.cls = "nan" \/ b.cls = "nan" THEN "none"
    ELSE LET d == Fsub(a, b)
         IN IF d.cls = "nan" THEN "equal"
            ELSE IF d.m < 0 THEN "less"
            ELSE IF d.m > 0 THEN "greater" ELSE "equal"

Flt(a, b) == PartialCmp(a, b) = "less"
Fgt(a, b) == PartialCmp(a, b) = "greater"
Feq(a, b) == PartialCmp(a, b) = "equal"
Fle(a, b) == PartialCmp(a, b) \in {"less", "equal"}

\* ------------------------------------------------------------ utilities

Min(a, b) == IF a <= b THEN a ELSE b
Range(s) == {s[i] : i \in DOMAIN s}

\* Option<T>: None is the empty sequence, Some(v) the one-element sequence.
None == << >>
Some(v) == <<v>>

\* ------------------------------------------------------------- bounds

\* Width of usize in the model (64 in the code).
UsizeBits == 4
\* Most documents of a corpus.
MaxDocs == 2
\* Most tokens of a corpus, all documents together.
MaxTokens == 3
\* Largest vocabulary.
MaxVocab == 3
\* Largest window radius.
MaxWindow == 2

\* usize is modelled UsizeBits wide: sums wrap at UsizeMax + 1 when the build
\* has overflow checks off, and panic when it has them on.
UsizeMax == 2^UsizeBits - 1

\* ------------------------------------------------ co-occurrence inputs

\* Vocabularies are the prefixes of this list of distinct terms.
AllTerms == <<"cat", "dog", "mouse", "bird", "fish", "frog">>
\* Tokens of the enumerated documents; "dog" is out of vocabulary for the
\* vocabulary <<"cat">>, and "mouse" is a term no enumerated document holds.
Tokens == {"cat", "dog"}
\* Terms the queries ask about; "unknown_term" is in no vocabulary.
QueryTerms == {"cat", "dog", "mouse", "unknown_term"}

\* A document is modelled by the token sequence split_whitespace() yields.
DocsUpTo(n) == UNION {[1..k -> Tokens] : k \in 0..n}

RECURSIVE TotalLen(_)
TotalLen(docs) ==
    IF docs = << >> THEN 0 ELSE Len(Head(docs)) + TotalLen(Tail(docs))

\* The corpus of the end-to-end scenario (spec section 8).
ExampleCorpus == << <<"cat", "chased", "dog">>, <<"dog", "chased", "mouse">> >>

Corpora ==
    {c \in UNION {[1..k -> DocsUpTo(MaxTokens)] : k \in 0..MaxDocs} :
        TotalLen(c) <= MaxTokens} \cup {ExampleCorpus}

Vocabularies == {SubSeq(AllTerms, 1, k) : k \in 0..MaxVocab}

\* Window radii: the small ones, and the largest usize.
WindowSizes == (0..MaxWindow) \cup {UsizeMax}

VARIABLES
    documents,    \* CoOccurrence::new argument: the corpus
    words,        \* CoOccurrence::new argument: the vocabulary
    window_size,  \* CoOccurrence::new argument: the window radius
    co,           \* the constructed CoOccurrence, or NoCo before new()
    last          \* the last query made and what it returned

coVars == <<documents, words, window_size, co, last>>

VARIABLES
    map,             \* the score map handed to the ranking utility
    iter_order,      \* the order in which map.iter() enumerates the map's keys
    ranked_strings,  \* the last get_ranked_strings call: [called, n, out]
    ranked_scores    \* the last get_ranked_scores call: [called, n, out]

sortVars == <<map, iter_order, ranked_strings, ranked_scores>>

VARIABLES
    tr_words,     \* build_text_rank argument: the word sequence
    tr_window,    \* build_text_rank argument: the window size
    pc,           \* where build_text_rank is: "start", "loop", "converged", "done"
    graph,        \* the word graph: node -> (neighbor -> weight)
    nodes,        \* graph.keys() / graph.values() enumeration order
    edge_order,   \* per node, the enumeration order of its edge map
    scores,       \* the score vector of the current iteration
    prev_scores,  \* the score vector of the iteration before
    iters,        \* passes of the loop made so far (kept to bound the loop)
    word_rank,    \* returned word -> score map
    phrase_rank   \* returned phrase -> score map

trVars == <<tr_words, tr_window, pc, graph, nodes, edge_order, scores, prev_scores,
            iters, word_rank, phrase_rank>>

VARIABLES
    win           \* the last get_window_range call and what came of it

winVars == <<win>>

VARIABLES
    tk_text,      \* Tokenizer text, as the pieces split_word_bounds() yields
    tk_length,    \* the phrase-length option: None or Some(L)
    tk_pos,       \* pieces folded so far
    tk_phrases,   \* the fold's accumulator: phrases pushed so far
    tk_phrase,    \* the fold's accumulator: the phrase being built
    tk_pc         \* where basic_phrase_split is: "fold", "done"

tokVars == <<tk_text, tk_length, tk_pos, tk_phrases, tk_phrase, tk_pc>>

vars == <<coVars, sortVars, trVars, winVars, tokVars>>

NotCalled == [called |-> FALSE, n |-> 0, out |-> << >>]

\* The components a specification does not exercise stay idle.
IdleCo ==
    /\ documents = << >> /\ words = << >> /\ window_size = 0
    /\ co = [built |-> FALSE] /\ last = [op |-> "none"]
IdleSort ==
    /\ map = << >> /\ iter_order = << >>
    /\ ranked_strings = NotCalled /\ ranked_scores = NotCalled
IdleTr ==
    /\ tr_words = << >> /\ tr_window = 0 /\ pc = "idle"
    /\ graph = << >> /\ nodes = << >> /\ edge_order = << >>
    /\ scores = << >> /\ prev_scores = << >> /\ iters = 0
    /\ word_rank = << >> /\ phrase_rank = << >>

IdleWin == win = [called |-> FALSE]
IdleTok ==
    /\ tk_text = << >> /\ tk_length = << >> /\ tk_pos = 0
    /\ tk_phrases = << >> /\ tk_phrase = << >> /\ tk_pc = "idle"

NoCo == [built |-> FALSE]
NoQuery == [op |-> "none"]

\* ------------------------------------------------------ co-occurrence

\* get_window_range with the end one short (index + window_size, not + 1).
get_window_range_short(ws, index, words_length) ==
    [start |-> IF index >= ws THEN index - ws ELSE 0,
     end |-> Min(index + ws, words_length)]

\* index + window_size + 1 does not fit a usize.
window_end_overflows(ws, index) == index + ws + 1 > UsizeMax

\* get_window_range: start saturates at 0 (saturating_sub), end is the
\* wrapping sum index + window_size + 1 clamped to the length.
get_window_range(ws, index, words_length) ==
    [start |-> IF index >= ws THEN index - ws ELSE 0,
     end |-> Min((index + ws + 1) % (UsizeMax + 1), words_length)]

\* create_words_indexes: word -> position; collecting into the map keeps the
\* last position of a repeated word.
create_words_indexes(ws) ==
    [w \in Range(ws) |->
        (CHOOSE i \in DOMAIN ws : ws[i] = w /\ \A j \in DOMAIN ws : ws[j] = w => j <= i) - 1]

\* IncCell with the maximum overwritten by the cell last written.
IncCell_last(acc, r, c) ==
    LET current == acc.matrix[r][c] + 1
    IN [matrix |-> [acc.matrix EXCEPT ![r][c] = current], max |-> current]

\* matrix[first_index][other_index] += 1.0 and the running maximum.
IncCell(acc, r, c) ==
    LET current == acc.matrix[r][c] + 1
    IN [matrix |-> [acc.matrix EXCEPT ![r][c] = current],
        max |-> IF current > acc.max THEN current ELSE acc.max]

\* The inner loop over the positions j of the window of position i.
RECURSIVE WindowFold(_, _, _, _, _, _)
WindowFold(acc, doc_words, wi, i, j, end) ==
    IF j >= end THEN acc
    ELSE LET other == doc_words[j + 1]
             hit == i # j /\ other \in DOMAIN wi
         IN WindowFold(IF hit THEN IncCell(acc, wi[doc_words[i + 1]], wi[other]) ELSE acc,
                       doc_words, wi, i, j + 1, end)

\* The loop over the positions i of a document whose token is in the vocabulary.
RECURSIVE DocFold(_, _, _, _, _)
DocFold(acc, doc_words, wi, ws, i) ==
    IF i >= Len(doc_words) THEN acc
    ELSE LET r == get_window_range(ws, i, Len(doc_words))
         IN DocFold(IF doc_words[i + 1] \in DOMAIN wi
                    THEN WindowFold(acc, doc_words, wi, i, r.start, r.end)
                    ELSE acc,
                    doc_words, wi, ws, i + 1)

\* The loop over the documents.
RECURSIVE CorpusFold(_, _, _, _)
CorpusFold(acc, docs, wi, ws) ==
    IF docs = << >> THEN acc
    ELSE CorpusFold(DocFold(acc, Head(docs), wi, ws, 0), Tail(docs), wi, ws)

\* The counts and their maximum before normalization (counts below 2^24
\* are exact f32 values, kept as integers).
raw_counts(docs, wi, length, ws) ==
    CorpusFold([matrix |-> [r \in 0..(length-1) |-> [c \in 0..(length-1) |-> 0]],
                max |-> 0], docs, wi, ws)

\* The normalization pass: *value /= max, for every cell.
normalize(acc) ==
    [r \in DOMAIN acc.matrix |->
        [c \in DOMAIN acc.matrix[r] |-> Fdiv(FromNat(acc.matrix[r][c]), FromNat(acc.max))]]

\* get_matrix (the free function): count, then normalize.
get_matrix(docs, wi, length, ws) == normalize(raw_counts(docs, wi, length, ws))

\* Some window end of the scan of get_matrix does not fit a usize: a token of
\* the vocabulary stands at a position i with i + window_size + 1 > usize::MAX.
matrix_scan_overflows(docs, wi, ws) ==
    \E d \in DOMAIN docs : \E i \in 0..(Len(docs[d]) - 1) :
        docs[d][i + 1] \in DOMAIN wi /\ window_end_overflows(ws, i)

\* CoOccurrence::new; in a build with overflow checks it panics when a
\* window end overflows, and no CoOccurrence is constructed.
New ==
    /\ co = NoCo
    /\ \E overflow_checks \in BOOLEAN :
        LET wi == create_words_indexes(words)
        IN co' = IF overflow_checks /\ matrix_scan_overflows(documents, wi, window_size)
                 THEN [built |-> FALSE, panicked |-> TRUE]
                 ELSE [built |-> TRUE,
                       matrix |-> get_matrix(documents, wi, Len(words), window_size),
                       words |-> words,
                       words_indexes |-> wi]
    /\ UNCHANGED <<documents, words, window_size, last, sortVars, trVars, winVars, tokVars>>

\* CoOccurrence::get_label
get_label(c, word) ==
    IF word \in DOMAIN c.words_indexes THEN Some(c.words_indexes[word]) ELSE None

\* CoOccurrence::get_word
get_word(c, label) ==
    IF label < Len(c.words) THEN Some(c.words[label + 1]) ELSE None

\* CoOccurrence::get_matrix_row
get_matrix_row(c, word) ==
    LET label == get_label(c, word)
    IN IF label = None THEN None ELSE Some(c.matrix[label[1]])

\* get_relation with an unknown second word read as label 0 of a zero row.
get_relation_default(c, word1, word2) ==
    LET label1 == get_label(c, word1)
        label2 == get_label(c, word2)
    IN IF label1 = None THEN None
       ELSE IF label2 = None THEN Some(Zero)
       ELSE Some(c.matrix[label1[1]][label2[1]])

\* CoOccurrence::get_relation
get_relation(c, word1, word2) ==
    LET label1 == get_label(c, word1)
        label2 == get_label(c, word2)
    IN IF label1 = None THEN None
       ELSE IF label2 = None THEN None
       ELSE Some(c.matrix[label1[1]][label2[1]])

\* The pairs (word, v) of a row with v > 0.0, in column order.
RECURSIVE RowRelations(_, _, _)
RowRelations(c, row, i) ==
    IF i >= Len(c.words) \/ i \notin DOMAIN row THEN << >>
    ELSE (IF Fgt(row[i], Zero) /\ get_word(c, i) # None
          THEN << <<get_word(c, i)[1], row[i]>> >> ELSE << >>)
         \o RowRelations(c, row, i + 1)

\* CoOccurrence::get_relations
get_relations(c, word) ==
    LET label == get_label(c, word)
    IN IF label = None THEN None ELSE Some(RowRelations(c, c.matrix[label[1]], 0))

GetLabel ==
    /\ co.built
    /\ \E w \in QueryTerms :
        last' = [op |-> "get_label", a |-> w, b |-> w, out |-> get_label(co, w)]
    /\ UNCHANGED <<documents, words, window_size, co, sortVars, trVars, winVars, tokVars>>

GetWord ==
    /\ co.built
    /\ \E l \in 0..(MaxVocab + 1) :
        last' = [op |-> "get_word", a |-> l, b |-> l, out |-> get_word(co, l)]
    /\ UNCHANGED <<documents, words, window_size, co, sortVars, trVars, winVars, tokVars>>

GetMatrixRow ==
    /\ co.built
    /\ \E w \in QueryTerms :
        last' = [op |-> "get_matrix_row", a |-> w, b |-> w, out |-> get_matrix_row(co, w)]
    /\ UNCHANGED <<documents, words, window_size, co, sortVars, trVars, winVars, tokVars>>

GetRelation ==
    /\ co.built
    /\ \E w1 \in QueryTerms, w2 \in QueryTerms :
        last' = [op |-> "get_relation", a |-> w1, b |-> w2, out |-> get_relation(co, w1, w2)]
    /\ UNCHANGED <<documents, words, window_size, co, sortVars, trVars, winVars, tokVars>>

GetRelations ==
    /\ co.built
    /\ \E w \in QueryTerms :
        last' = [op |-> "get_relations", a |-> w, b |-> w, out |-> get_relations(co, w)]
    /\ UNCHANGED <<documents, words, window_size, co, sortVars, trVars, winVars, tokVars>>

InitCo ==
    /\ documents \in Corpora
    /\ words \in Vocabularies
    /\ window_size \in WindowSizes
    /\ co = NoCo
    /\ last = NoQuery
    /\ IdleSort
    /\ IdleTr
    /\ IdleWin
    /\ IdleTok

NextCo == New \/ GetLabel \/ GetWord \/ GetMatrixRow \/ GetRelation \/ GetRelations

\* Construction of a co-occurrence matrix and the queries on it.
SpecCo == InitCo /\ [][NextCo]_vars

\* ----------------------------------------------------- ranking utility

\* Most entries of a score map.
MaxTerms == 3
\* Largest n asked of the ranking functions.
MaxN == 4

\* Single-letter terms: their lexicographic order is their order here.
Alphabet == <<"a", "b", "c", "d", "e", "f">>
SortTerms == {Alphabet[i] : i \in 1..MaxTerms}
ScoreValues == {Zero, FromNat(1), NaN}

Perms(S) == {f \in [1..Cardinality(S) -> S] : \A i, j \in DOMAIN f : f[i] = f[j] => i = j}
ScoreMaps == UNION {[D -> ScoreValues] : D \in SUBSET SortTerms}

\* Ordering of a against b, from an index difference.
OrderingOf(d) == IF d < 0 THEN "less" ELSE IF d > 0 THEN "greater" ELSE "equal"

\* str::cmp on the terms.
StrCmp(s, t) ==
    OrderingOf((CHOOSE i \in DOMAIN Alphabet : Alphabet[i] = s)
               - (CHOOSE i \in DOMAIN Alphabet : Alphabet[i] = t))

\* The comparator with the scores compared ascending (a against b).
compare_ascending(a, b) ==
    LET cmp == PartialCmp(a[2], b[2])
        order == IF cmp = "none" THEN "equal" ELSE cmp
    IN IF order = "equal" THEN StrCmp(a[1], b[1]) ELSE order

\* The comparator without the tie-break on the term.
compare_no_tiebreak(a, b) ==
    LET cmp == PartialCmp(b[2], a[2])
    IN IF cmp = "none" THEN "equal" ELSE cmp

\* The closure given to sort_by: b.1.partial_cmp(a.1).unwrap_or(Equal), then
\* a.0.cmp(b.0) when that is Equal.  An entry is <<term, score>>.
compare(a, b) ==
    LET cmp == PartialCmp(b[2], a[2])
        order == IF cmp = "none" THEN "equal" ELSE cmp
    IN IF order = "equal" THEN StrCmp(a[1], b[1]) ELSE order

\* One insertion of the stable sort: x moves left past every element it is
\* less than, from the right end.
RECURSIVE InsertTail(_, _)
InsertTail(s, x) ==
    IF s = << >> THEN <<x>>
    ELSE IF compare(x, s[Len(s)]) = "less"
         THEN InsertTail(SubSeq(s, 1, Len(s) - 1), x) \o <<s[Len(s)]>>
         ELSE s \o <<x>>

\* slice::sort_by on a short slice: stable insertion sort, left to right.
RECURSIVE sort_by(_)
sort_by(v) ==
    IF v = << >> THEN << >>
    ELSE InsertTail(sort_by(SubSeq(v, 1, Len(v) - 1)), v[Len(v)])

\* map.iter().collect(): the entries in the map's enumeration order.
Collect(m, order) == [i \in DOMAIN order |-> <<order[i], m[order[i]]>>]

\* basic_sort / parallel_sort / sort_ranked_map
sort_ranked_map(m, order) == sort_by(Collect(m, order))

\* Iterator::take
Take(s, n) == SubSeq(s, 1, Min(n, Len(s)))

\* get_ranked_strings
get_ranked_strings(m, order, n) ==
    LET top == Take(sort_ranked_map(m, order), n)
    IN [i \in DOMAIN top |-> top[i][1]]

\* get_ranked_scores
get_ranked_scores(m, order, n) == Take(sort_ranked_map(m, order), n)

GetRankedStrings ==
    /\ \E n \in 0..MaxN :
          ranked_strings' = [called |-> TRUE, n |-> n,
                             out |-> get_ranked_strings(map, iter_order, n)]
    /\ UNCHANGED <<map, iter_order, ranked_scores, coVars, trVars, winVars, tokVars>>

GetRankedScores ==
    /\ \E n \in 0..MaxN :
          ranked_scores' = [called |-> TRUE, n |-> n,
                            out |-> get_ranked_scores(map, iter_order, n)]
    /\ UNCHANGED <<map, iter_order, ranked_strings, coVars, trVars, winVars, tokVars>>

InitSort ==
    /\ map \in ScoreMaps
    /\ iter_order \in Perms(DOMAIN map)
    /\ ranked_strings = NotCalled
    /\ ranked_scores = NotCalled
    /\ IdleCo
    /\ IdleTr
    /\ IdleWin
    /\ IdleTok

NextSort == GetRankedStrings \/ GetRankedScores

\* The ranking utility applied to a score map.
SpecSort == InitSort /\ [][NextSort]_vars

\* ------------------------------------------------------------ TextRank

\* Most words of the word sequence.
MaxWords == 5
\* Hash seeds 0..MaxSeed: the enumeration orders of the hash maps tried.
MaxSeed == 2
\* Most words of a phrase.
MaxPhraseLen == 2
\* Most passes of the power-iteration loop the model follows.
MaxIters == 70

\* damping = 0.85_f32 and tol = 1e-4_f32 (spec section 8), bit-exact.
Damping == [cls |-> "num", m |-> 14260634, e |-> -24]
Tol == [cls |-> "num", m |-> 13743895, e |-> -37]

Idx(w) == CHOOSE i \in DOMAIN Alphabet : Alphabet[i] = w

\* Word sequences up to renaming: each word is one already used or the next
\* unused letter of the alphabet.
IsCanonical(ws) ==
    \A i \in DOMAIN ws : \A k \in 1..(Idx(ws[i]) - 1) : \E j \in 1..(i-1) : Idx(ws[j]) = k

WordSeqs ==
    UNION {{ws \in [1..n -> {Alphabet[i] : i \in 1..n}] : IsCanonical(ws)} : n \in 0..MaxWords}

\* A phrase is modelled by the word sequence split_whitespace() yields; "zz"
\* is a word of no graph.
PhraseWords == {"a", "zz"}
Phrases == UNION {[1..n -> PhraseWords] : n \in 0..MaxPhraseLen}
PhraseLists == {<< >>} \cup {<<p>> : p \in Phrases} \cup {<< <<"a", "b">>, <<"zz">>, << >> >>}

\* A HashMap enumerates its keys in the order of their hashes, which its
\* RandomState seeds: the model tries the orders of a multiplicative hash
\* (seed 0 gives alphabetical order).
HashKey(w, seed) == (Idx(w) * (seed + 1)) % (Len(Alphabet) + 1)
IterOrder(S, seed) ==
    [i \in 1..Cardinality(S) |->
        CHOOSE w \in S : Cardinality({u \in S : HashKey(u, seed) < HashKey(w, seed)}) = i - 1]

\* add_edge that does not accumulate: the weight of a repeated pair stays 1.
add_edge_once(g, word1, word2) ==
    LET edges == IF word1 \in DOMAIN g THEN g[word1] ELSE << >>
        edges2 == [n \in DOMAIN edges \cup {word2} |-> IF n = word2 THEN 1 ELSE edges[n]]
    IN [n \in DOMAIN g \cup {word1} |-> IF n = word1 THEN edges2 ELSE g[n]]

\* add_edge: graph.entry(word1).or_default().entry(word2) += 1.0 (or insert 1.0)
add_edge(g, word1, word2) ==
    LET edges == IF word1 \in DOMAIN g THEN g[word1] ELSE << >>
        weight == IF word2 \in DOMAIN edges THEN edges[word2] + 1 ELSE 1
        edges2 == [n \in DOMAIN edges \cup {word2} |-> IF n = word2 THEN weight ELSE edges[n]]
    IN [n \in DOMAIN g \cup {word1} |-> IF n = word1 THEN edges2 ELSE g[n]]

\* ForwardFold recording each pair in one direction only.
RECURSIVE ForwardFold_one_way(_, _, _, _, _)
ForwardFold_one_way(g, ws, i, j, end) ==
    IF j > end THEN g
    ELSE ForwardFold_one_way(IF ws[i] # ws[j] THEN add_edge(g, ws[i], ws[j]) ELSE g,
                             ws, i, j + 1, end)

\* The pairs (word1, word2) of the forward window of position i, from j on.
RECURSIVE ForwardFold(_, _, _, _, _)
ForwardFold(g, ws, i, j, end) ==
    IF j > end THEN g
    ELSE ForwardFold(IF ws[i] # ws[j]
                     THEN add_edge(add_edge(g, ws[i], ws[j]), ws[j], ws[i])
                     ELSE g,
                     ws, i, j + 1, end)

\* create_graph: for each i, words[i+1..].take(window_size), self-pairs skipped.
RECURSIVE GraphFold(_, _, _, _)
GraphFold(g, ws, window, i) ==
    IF i > Len(ws) THEN g
    ELSE GraphFold(ForwardFold(g, ws, i, i + 1, Min(i + window, Len(ws))), ws, window, i + 1)

create_graph(ws, window) == GraphFold(<< >>, ws, window, 1)

\* Sum of the integer weights of an edge map (exact in f32 below 2^24).
RECURSIVE SumWeights(_, _)
SumWeights(edges, S) ==
    IF S = {} THEN 0
    ELSE LET n == CHOOSE n \in S : TRUE IN edges[n] + SumWeights(edges, S \ {n})

\* get_outgoing_weight_sum: node -> edges.values().sum()
get_outgoing_weight_sum(g) == [n \in DOMAIN g |-> SumWeights(g[n], DOMAIN g[n])]

\* get_node_indexes: node -> its position in the key enumeration (0-based)
get_node_indexes(ns) == [n \in Range(ns) |-> (CHOOSE i \in DOMAIN ns : ns[i] = n) - 1]

\* The sum of score_word over the edges from position k of their order on.
RECURSIVE EdgeSum(_, _, _, _, _, _, _)
EdgeSum(acc, edges, order, k, node_indexes, outs, prev) ==
    IF k > Len(order) THEN acc
    ELSE LET neighbor == order[k]
             term == Fmul(Fdiv(FromNat(edges[neighbor]), FromNat(outs[neighbor])),
                          prev[node_indexes[neighbor] + 1])
         IN EdgeSum(Fadd(acc, term), edges, order, k + 1, node_indexes, outs, prev)

\* score_word: (1.0 - damping) + damping * sum
score_word(edges, order, node_indexes, outs, prev, damping) ==
    Fadd(Fsub(FromNat(1), damping),
         Fmul(damping, EdgeSum(Zero, edges, order, 1, node_indexes, outs, prev)))

\* The scores of the graph entries from position i of the enumeration on.
RECURSIVE ScoresFrom(_, _, _, _, _, _, _, _)
ScoresFrom(i, g, ns, eorder, node_indexes, outs, prev, damping) ==
    IF i > Len(ns) THEN << >>
    ELSE <<score_word(g[ns[i]], eorder[ns[i]], node_indexes, outs, prev, damping)>>
         \o ScoresFrom(i + 1, g, ns, eorder, node_indexes, outs, prev, damping)

\* get_scores: one score per graph entry, in the graph's enumeration order.
get_scores(g, ns, eorder, node_indexes, outs, prev, damping) ==
    ScoresFrom(1, g, ns, eorder, node_indexes, outs, prev, damping)

\* check_tolorance without the absolute value.
check_tolorance_signed(sc, prev, tol) ==
    \A i \in DOMAIN sc : Flt(Fsub(sc[i], prev[i]), tol)

\* check_tolorance: every |score - prev_score| < tol
check_tolorance(sc, prev, tol) ==
    \A i \in DOMAIN sc : Flt(Fabs(Fsub(sc[i], prev[i])), tol)

\* The recognized words' scores of a phrase, summed in phrase order.
RECURSIVE PhraseSum(_, _, _)
PhraseSum(acc, ws, rank) ==
    IF ws = << >> THEN acc
    ELSE PhraseSum(IF Head(ws) \in DOMAIN rank THEN Fadd(acc, rank[Head(ws)]) ELSE acc,
                   Tail(ws), rank)

\* score_phrase: score / words.len() as f32
score_phrase(phrase, rank) == Fdiv(PhraseSum(Zero, phrase, rank), FromNat(Len(phrase)))

\* rank_phrases: phrase -> score_phrase
rank_phrases(phrases, rank) == [p \in Range(phrases) |-> score_phrase(p, rank)]

\* create_graph and the set-up of create_word_rank: the enumeration orders
\* of the maps, the initial scores 1.0.
CreateGraph ==
    /\ pc = "start"
    /\ \E seed \in 0..MaxSeed :
         LET g == create_graph(tr_words, tr_window)
             ns == IterOrder(DOMAIN g, seed)
         IN /\ graph' = g
            /\ nodes' = ns
            /\ edge_order' = [n \in DOMAIN g |-> IterOrder(DOMAIN g[n], seed)]
            /\ scores' = [i \in DOMAIN ns |-> FromNat(1)]
            /\ prev_scores' = [i \in DOMAIN ns |-> FromNat(1)]
    /\ pc' = "loop"
    /\ UNCHANGED <<tr_words, tr_window, iters, word_rank, phrase_rank, coVars, sortVars, winVars, tokVars>>

\* One pass of the loop of create_word_rank (the model stops a loop that
\* has made MaxIters passes).
Iterate ==
    /\ pc = "loop"
    /\ iters < MaxIters
    /\ iters' = iters + 1
    /\ LET new == get_scores(graph, nodes, edge_order, get_node_indexes(nodes),
                             get_outgoing_weight_sum(graph), scores, Damping)
       IN /\ prev_scores' = scores
          /\ scores' = new
          /\ pc' = IF check_tolorance(new, scores, Tol) THEN "converged" ELSE "loop"
    /\ UNCHANGED <<tr_words, tr_window, graph, nodes, edge_order, word_rank, phrase_rank,
                   coVars, sortVars, winVars, tokVars>>

\* The end of create_word_rank (node -> scores[node_indexes[node]]) and
\* rank_phrases on the phrases given to build_text_rank.
Finish ==
    /\ pc = "converged"
    /\ \E phrases \in PhraseLists :
         LET node_indexes == get_node_indexes(nodes)
             rank == [n \in Range(nodes) |-> scores[node_indexes[n] + 1]]
         IN /\ word_rank' = rank
            /\ phrase_rank' = rank_phrases(phrases, rank)
    /\ pc' = "done"
    /\ UNCHANGED <<tr_words, tr_window, graph, nodes, edge_order, scores, prev_scores,
                   iters, coVars, sortVars, winVars, tokVars>>

InitTr ==
    /\ tr_words \in WordSeqs
    /\ tr_window \in 0..MaxWindow
    /\ pc = "start"
    /\ graph = << >> /\ nodes = << >> /\ edge_order = << >>
    /\ scores = << >> /\ prev_scores = << >> /\ iters = 0
    /\ word_rank = << >> /\ phrase_rank = << >>
    /\ IdleCo
    /\ IdleSort
    /\ IdleWin
    /\ IdleTok

NextTr == CreateGraph \/ Iterate \/ Finish

\* TextRankLogic::build_text_rank.
SpecTr == InitTr /\ [][NextTr]_vars

\* ------------------------------------------------- windowing function

\* The call of get_window_range, on any usize arguments, in a build with
\* overflow checks on (the sum panics when it does not fit) or off (it wraps).
GetWindowRange ==
    \E ws \in 0..UsizeMax, index \in 0..UsizeMax, words_length \in 0..UsizeMax,
       overflow_checks \in BOOLEAN :
        /\ ~win.called
        /\ win' = [called |-> TRUE,
                   window_size |-> ws, index |-> index, words_length |-> words_length,
                   panicked |-> overflow_checks /\ window_end_overflows(ws, index),
                   range |-> get_window_range(ws, index, words_length)]
        /\ UNCHANGED <<coVars, sortVars, trVars, tokVars>>

InitWin ==
    /\ win = [called |-> FALSE]
    /\ IdleCo
    /\ IdleSort
    /\ IdleTr
    /\ IdleTok

NextWin == GetWindowRange

\* Calls of the windowing function.
SpecWin == InitWin /\ [][NextWin]_vars

\* ------------------------------------------------------------ tokenizer

\* Most pieces of a text.
MaxPieces == 4

\* The pieces split_word_bounds() yields: words, a word with a possessive
\* and a capital, a stopword, a punctuation mark, whitespace and a comma.
Pieces == {"cat", "Dog's", "the", "!", " ", ","}
Texts == UNION {[1..n -> Pieces] : n \in 0..MaxPieces}
LengthOptions == {None} \cup {Some(l) : l \in 0..MaxPhraseLen}

\* Tokenizer::new arguments: the stopwords and the punctuation set.
TkStopwords == {"the"}
TkPunctuation == {"!"}

\* special_char_regex.replace_all(base_word.trim(), "").to_lowercase():
\* whitespace trims to nothing, the regex deletes 's , and . and capitals
\* are lowered.
clean_word(base_word) ==
    CASE base_word = "Dog's" -> "dog"
      [] base_word = " " -> ""
      [] base_word = "," -> ""
      [] OTHER -> base_word

\* word.graphemes(true).count()
graphemes_count(word) ==
    CASE word = "" -> 0
      [] word = "!" -> 1
      [] OTHER -> 3

\* is_punctuation: the empty word, or a single grapheme of the punctuation set.
is_punctuation(word, punctuation) ==
    word = "" \/ (graphemes_count(word) = 1 /\ word \in punctuation)

\* The first, unconditional part of create_phrase: a stopword closes a
\* non-empty phrase, another word extends it, punctuation does neither.
\* A phrase is modelled by the sequence of its words (joined by ' ').
take_word(acc, word, punctuation, stopwords) ==
    IF is_punctuation(word, punctuation) THEN acc
    ELSE IF word \in stopwords
         THEN (IF acc.phrase # << >>
               THEN [phrases |-> Append(acc.phrases, acc.phrase), phrase |-> << >>]
               ELSE acc)
         ELSE [acc EXCEPT !.phrase = Append(acc.phrase, word)]

\* The length check of create_phrase: with Some(length), a phrase of
\* length or more words is pushed, whatever it holds.
cut_at_length(acc, length) ==
    IF length # None /\ Len(acc.phrase) >= length[1]
    THEN [phrases |-> Append(acc.phrases, acc.phrase), phrase |-> << >>]
    ELSE acc

\* create_phrase
create_phrase(phrases, phrase, base_word, punctuation, stopwords, length) ==
    cut_at_length(take_word([phrases |-> phrases, phrase |-> phrase],
                            clean_word(base_word), punctuation, stopwords),
                  length)

\* One step of the fold of basic_phrase_split.
FoldPiece ==
    /\ tk_pc = "fold"
    /\ tk_pos < Len(tk_text)
    /\ LET acc == create_phrase(tk_phrases, tk_phrase, tk_text[tk_pos + 1],
                                TkPunctuation, TkStopwords, tk_length)
       IN tk_phrases' = acc.phrases /\ tk_phrase' = acc.phrase
    /\ tk_pos' = tk_pos + 1
    /\ UNCHANGED <<tk_text, tk_length, tk_pc, coVars, sortVars, trVars, winVars>>

\* The end of basic_phrase_split: the last phrase is pushed unless empty.
ReturnPhrases ==
    /\ tk_pc = "fold"
    /\ tk_pos = Len(tk_text)
    /\ tk_phrases' = IF tk_phrase # << >> THEN Append(tk_phrases, tk_phrase) ELSE tk_phrases
    /\ tk_phrase' = << >>
    /\ tk_pc' = "done"
    /\ UNCHANGED <<tk_text, tk_length, tk_pos, coVars, sortVars, trVars, winVars>>

InitTok ==
    /\ tk_text \in Texts
    /\ tk_length \in LengthOptions
    /\ tk_pos = 0 /\ tk_phrases = << >> /\ tk_phrase = << >>
    /\ tk_pc = "fold"
    /\ IdleCo
    /\ IdleSort
    /\ IdleTr
    /\ IdleWin

NextTok == FoldPiece \/ ReturnPhrases

\* Tokenizer::sync_split_into_phrases.
SpecTok == InitTok /\ [][NextTok]_vars

\* ----------------------------------------------- co-occurrence claims

One == FromNat(1)
Labels == 0..(Len(words) - 1)

\* The largest raw count of the inputs: 0 iff no two vocabulary tokens
\* co-occur within the window.
RawMax == raw_counts(documents, create_words_indexes(words), Len(words), window_size).max

ExampleVocabulary == <<"cat", "dog", "mouse">>

\* C1: when no two vocabulary tokens co-occur within the window, every cell
\* of the constructed matrix is exactly 0, and so is every relation(a, b)
\* returned for known terms.
C1_ZeroMatrixWhenNoCoOccurrence ==
    (co.built /\ RawMax = 0) =>
        /\ \A r \in Labels, c \in Labels : co.matrix[r][c] = Zero
        /\ (last.op = "get_relation" /\ last.out # None) => last.out[1] = Zero

\* C2: when at least one co-occurrence is counted, the largest cell of the
\* constructed matrix is exactly 1.0 and every cell lies in [0, 1].
C2_MaxIsOne ==
    (co.built /\ RawMax > 0) =>
        /\ \E r \in Labels, c \in Labels : co.matrix[r][c] = One
        /\ \A r \in Labels, c \in Labels :
              Fle(Zero, co.matrix[r][c]) /\ Fle(co.matrix[r][c], One)

\* C2 witness: a matrix with a cell strictly between 0 and 1.
C2_Witness ==
    /\ co.built
    /\ RawMax > 0
    /\ \E r \in Labels, c \in Labels :
          Fgt(co.matrix[r][c], Zero) /\ Flt(co.matrix[r][c], One)

InScenario(ws) ==
    /\ co.built
    /\ documents = ExampleCorpus
    /\ words = ExampleVocabulary
    /\ window_size = ws

Asked(op, a, b) == last.op = op /\ last.a = a /\ last.b = b

\* C3 as stated: in the scenario with window_size = 1,
\* relation(cat, dog) > 0 and relation(cat, mouse) == 0.
C3_ScenarioWindow1 ==
    InScenario(1) =>
        /\ Asked("get_relation", "cat", "dog") =>
              last.out # None /\ Fgt(last.out[1], Zero)
        /\ Asked("get_relation", "cat", "mouse") =>
              last.out # None /\ Feq(last.out[1], Zero)

\* C3 amended: in the scenario with window_size = 2 (the radius that reaches
\* over "chased"), relation(cat, dog) > 0 and relation(cat, mouse) == 0.
C3_ScenarioWindow2 ==
    InScenario(2) =>
        /\ Asked("get_relation", "cat", "dog") =>
              last.out # None /\ Fgt(last.out[1], Zero)
        /\ Asked("get_relation", "cat", "mouse") =>
              last.out # None /\ Feq(last.out[1], Zero)

\* C3 witness: relation(cat, dog) was asked in the scenario with window 2.
C3_Witness == InScenario(2) /\ Asked("get_relation", "cat", "dog")

\* C4: the matrix is symmetric: relation(a, b) == relation(b, a) for every
\* pair of vocabulary terms (== is f32 equality).
C4_Symmetric ==
    co.built =>
        \A a \in Range(words), b \in Range(words) :
            Feq(get_relation(co, a, b)[1], get_relation(co, b, a)[1])

\* C5: a query about a term outside the vocabulary returns None and a query
\* about known terms returns Some: get_label, get_matrix_row, get_relations
\* and get_relation (either argument), and get_word for a label >= the
\* vocabulary size.
C5_UnknownIsNone ==
    /\ last.op \in {"get_label", "get_matrix_row", "get_relations"} =>
          (last.out = None <=> last.a \notin Range(words))
    /\ last.op = "get_relation" =>
          (last.out = None <=> (last.a \notin Range(words) \/ last.b \notin Range(words)))
    /\ last.op = "get_word" =>
          (last.out = None <=> last.a >= Len(words))

\* C5 witness: relation(cat, unknown_term) was asked with cat in the vocabulary.
C5_Witness ==
    /\ Asked("get_relation", "cat", "unknown_term")
    /\ "cat" \in Range(words)
    /\ last.out = None

\* --------------------------------------------------- ranking claims

NoNaNMap == \A t \in DOMAIN map : map[t].cls # "nan"
Entries(m) == {<<t, m[t]>> : t \in DOMAIN m}

\* Entry x is listed before entry y: higher score, or equal score and
\* the lexicographically smaller term.
RanksBefore(x, y) ==
    \/ Fgt(x[2], y[2])
    \/ Feq(x[2], y[2]) /\ StrCmp(x[1], y[1]) = "less"

\* terms is the list of the first min(n, |map|) terms of the map in ranking
\* order: that many, each a key of the map, listed in order (hence distinct),
\* and every key left out ranks after every key listed.
IsTopN(terms, n) ==
    /\ Len(terms) = Min(n, Cardinality(DOMAIN map))
    /\ \A i \in DOMAIN terms : terms[i] \in DOMAIN map
    /\ \A i, j \in DOMAIN terms :
          i < j => RanksBefore(<<terms[i], map[terms[i]]>>, <<terms[j], map[terms[j]]>>)
    /\ \A i \in DOMAIN terms, t \in DOMAIN map \ Range(terms) :
          RanksBefore(<<terms[i], map[terms[i]]>>, <<t, map[t]>>)

TermsOf(pairs) == [i \in DOMAIN pairs |-> pairs[i][1]]

\* C6: for a score map without NaN and every n, get_ranked_strings and
\* get_ranked_scores return the first min(n, |map|) entries of the map by
\* score descending, ties by term ascending (nothing for n = 0, everything
\* for n > |map|), each score being the map's, and for the same n both
\* return the same terms in the same order.
C6_RankedPrefix ==
    NoNaNMap =>
        /\ ranked_strings.called => IsTopN(ranked_strings.out, ranked_strings.n)
        /\ ranked_scores.called =>
              /\ IsTopN(TermsOf(ranked_scores.out), ranked_scores.n)
              /\ \A i \in DOMAIN ranked_scores.out :
                    ranked_scores.out[i][2] = map[ranked_scores.out[i][1]]
        /\ (ranked_strings.called /\ ranked_scores.called
               /\ ranked_strings.n = ranked_scores.n) =>
              ranked_strings.out = TermsOf(ranked_scores.out)

\* C6 witness: a three-entry map with a tie, enumerated out of ranking
\* order, asked for its top 2 by both functions.
C6_Witness ==
    /\ NoNaNMap
    /\ Cardinality(DOMAIN map) = 3
    /\ \E t, u \in DOMAIN map : t # u /\ map[t] = map[u]
    /\ iter_order # TermsOf(sort_ranked_map(map, iter_order))
    /\ ranked_strings.called /\ ranked_strings.n = 2 /\ Len(ranked_strings.out) = 2
    /\ ranked_scores.called /\ ranked_scores.n = 2

\* The comparator is a total order on the entries of m.
ComparatorTotal(m) ==
    \A x, y, z \in Entries(m) :
        /\ x # y => compare(x, y) # "equal"
        /\ compare(x, y) = "less" <=> compare(y, x) = "greater"
        /\ (compare(x, y) = "less" /\ compare(y, z) = "less") => compare(x, z) = "less"

\* The ranking returned is the one every enumeration order of the map gives.
OrderIndependent ==
    \A o \in Perms(DOMAIN map) :
        ranked_scores.out = get_ranked_scores(map, o, ranked_scores.n)

\* C7 as stated: for every score map, NaN scores included, the comparator
\* is a total order on the map's entries and the sorted output does not
\* depend on the order in which the map is enumerated.
C7_TotalOrderEveryMap ==
    ranked_scores.called => ComparatorTotal(map) /\ OrderIndependent

\* C7 amended: the same for every score map without NaN scores.
C7_TotalOrderWithoutNaN ==
    (ranked_scores.called /\ NoNaNMap) => ComparatorTotal(map) /\ OrderIndependent

\* C7 witness: a NaN-free three-entry map with a tie, enumerated out of
\* ranking order and ranked in full.
C7_Witness ==
    /\ NoNaNMap
    /\ Cardinality(DOMAIN map) = 3
    /\ \E t, u \in DOMAIN map : t # u /\ map[t] = map[u]
    /\ iter_order # TermsOf(sort_ranked_map(map, iter_order))
    /\ ranked_scores.called /\ Len(ranked_scores.out) = 3

\* --------------------------------------------------- TextRank claims

\* Every word of the phrase is absent from the word-score map.
NoRecognizedWord(p) == \A i \in DOMAIN p : p[i] \notin DOMAIN word_rank

\* C8: every phrase passed to build_text_rank scores the sum of its words'
\* scores (0 for a word without a score, repetitions counted) divided by its
\* word count, and a phrase with no recognized word scores exactly 0.
C8_PhraseMean ==
    pc = "done" =>
        \A p \in DOMAIN phrase_rank :
            /\ phrase_rank[p] = Fdiv(PhraseSum(Zero, p, word_rank), FromNat(Len(p)))
            /\ NoRecognizedWord(p) => Feq(phrase_rank[p], Zero)

\* The nodes reachable from the nodes of S.
RECURSIVE Reach(_, _)
Reach(g, S) ==
    LET S2 == S \cup UNION {DOMAIN g[n] : n \in S}
    IN IF S2 = S THEN S ELSE Reach(g, S2)

\* The graph is connected and all its edges weigh the same.
UniformConnected ==
    /\ DOMAIN graph # {}
    /\ \A n \in DOMAIN graph : Reach(graph, {n}) = DOMAIN graph
    /\ \A n, k \in DOMAIN graph :
          \A u \in DOMAIN graph[n], v \in DOMAIN graph[k] : graph[n][u] = graph[k][v]

\* Every score is within tol of the score of the iteration before.
WithinTol ==
    \A i \in DOMAIN scores :
        LET d == Fsub(scores[i], prev_scores[i])
        IN Flt(d, Tol) /\ Flt(Fneg(d), Tol)

\* C9: on a connected graph with uniform edge weights (damping 0.85, tol
\* 1e-4) the loop of create_word_rank terminates (it never makes MaxIters
\* passes without converging), and when it does every score is within tol
\* of its value in the previous iteration.
C9_Converges ==
    UniformConnected =>
        /\ pc = "loop" => iters < MaxIters
        /\ pc = "converged" => WithinTol

\* C9 witness: the loop has ended on a connected uniform graph of three or
\* more nodes whose scores moved away from 1.0.
C9_Witness ==
    /\ pc = "converged"
    /\ UniformConnected
    /\ iters >= 2
    /\ Cardinality(DOMAIN graph) >= 3
    /\ \E i \in DOMAIN scores : scores[i] # FromNat(1)

\* The loop of create_word_rank, run to its end from the scores sc.
RECURSIVE Converge(_, _, _, _)
Converge(g, ns, eorder, sc) ==
    LET new == get_scores(g, ns, eorder, get_node_indexes(ns),
                          get_outgoing_weight_sum(g), sc, Damping)
    IN IF check_tolorance(new, sc, Tol) THEN new ELSE Converge(g, ns, eorder, new)

\* The word-score map create_word_rank returns when the hash maps enumerate
\* their keys in the order of the given seed.
WordRankUnder(ws, window, seed) ==
    LET g == create_graph(ws, window)
        ns == IterOrder(DOMAIN g, seed)
        eorder == [n \in DOMAIN g |-> IterOrder(DOMAIN g[n], seed)]
        sc == Converge(g, ns, eorder, [i \in DOMAIN ns |-> FromNat(1)])
        node_indexes == get_node_indexes(ns)
    IN [n \in Range(ns) |-> sc[node_indexes[n] + 1]]

\* C10: the word-score and phrase-score maps returned depend on the inputs
\* alone: they are the maps of every other construction on the same inputs,
\* whatever order its maps enumerate nodes and edges in.
C10_Deterministic ==
    pc = "done" =>
        \A seed \in 0..MaxSeed :
            LET rank == WordRankUnder(tr_words, tr_window, seed)
            IN /\ word_rank = rank
               /\ phrase_rank = [p \in DOMAIN phrase_rank |-> score_phrase(p, rank)]

\* ------------------------------------------- windowing function claims

Max(a, b) == IF a > b THEN a ELSE b

\* C11: for every window radius w, center index i and length L with i < L,
\* get_window_range returns [max(0, i-w), min(L, i+w+1)): it returns (no
\* panic), the start is clamped to 0, the end never exceeds L and the range
\* contains i.
C11_ClampedRange ==
    (win.called /\ win.index < win.words_length) =>
        /\ ~win.panicked
        /\ win.range.start = Max(0, win.index - win.window_size)
        /\ win.range.end = Min(win.words_length, win.index + win.window_size + 1)
        /\ win.range.end <= win.words_length
        /\ win.range.start <= win.index /\ win.index < win.range.end

\* ----------------------------------------- co-occurrence count claims

\* The triples (document d, position i, position j) with i # j,
\* |i - j| <= window_size, token d[i] = a and token d[j] = b.
Triples(a, b) ==
    {t \in UNION {{<<d, i, j>> : i \in DOMAIN documents[d], j \in DOMAIN documents[d]} :
                      d \in DOMAIN documents} :
        /\ t[2] # t[3]
        /\ Abs(t[2] - t[3]) <= window_size
        /\ documents[t[1]][t[2]] = a
        /\ documents[t[1]][t[3]] = b}

\* C12: before normalization, for every pair of vocabulary terms a, b the
\* cell matrix[label(a)][label(b)] is the number of triples (document,
\* position i, position j) with i # j, |i - j| <= window_size, token a at i
\* and token b at j, positions counting every token of the document.
C12_RawCounts ==
    co.built =>
        LET wi == create_words_indexes(words)
            raw == raw_counts(documents, wi, Len(words), window_size)
        IN \A a \in Range(words), b \in Range(words) :
               raw.matrix[wi[a]][wi[b]] = Cardinality(Triples(a, b))

\* ------------------------------------------------- word graph claims

\* The position pairs (i, j) with i < j <= i + window_size, j within the
\* sequence, and {words[i], words[j]} = {a, b}.
ForwardPairs(a, b) ==
    {q \in (DOMAIN tr_words) \X (DOMAIN tr_words) :
        /\ q[1] < q[2] /\ q[2] <= q[1] + tr_window
        /\ {tr_words[q[1]], tr_words[q[2]]} = {a, b}}

GraphBuilt == pc \in {"loop", "converged", "done"}

\* C13: the graph create_graph builds is the forward-window count graph:
\* for words a # b, weight(a, b) = weight(b, a) = the number of forward
\* pairs of a and b; an edge is present only when that number is >= 1; no
\* node has an edge to itself; the nodes, and the keys of the word-score
\* map, are exactly the words with at least one edge.
C13_ForwardCountGraph ==
    GraphBuilt =>
        /\ \A a \in Range(tr_words), b \in Range(tr_words) :
              LET count == Cardinality(ForwardPairs(a, b))
                  present == a \in DOMAIN graph /\ b \in DOMAIN graph[a]
              IN IF a # b /\ count >= 1
                 THEN present /\ graph[a][b] = count /\ graph[b][a] = count
                 ELSE ~present
        /\ \A n \in DOMAIN graph :
              /\ n \in Range(tr_words)
              /\ DOMAIN graph[n] # {}
              /\ DOMAIN graph[n] \subseteq Range(tr_words) \ {n}
        /\ pc = "done" => DOMAIN word_rank = DOMAIN graph

\* C13 witness: a finished run on a graph of three or more nodes with a
\* repeated pair (an edge of weight 2 or more) and a word repeated next to
\* itself.
C13_Witness ==
    /\ pc = "done"
    /\ Cardinality(DOMAIN graph) >= 3
    /\ \E a \in DOMAIN graph : \E b \in DOMAIN graph[a] : graph[a][b] >= 2
    /\ \E i \in DOMAIN tr_words : i > 1 /\ tr_words[i] = tr_words[i - 1]

\* ------------------------------------------------- relations claims

\* The positions of the returned list that name the term u.
PairsOf(pairs, u) == {i \in DOMAIN pairs : pairs[i][1] = u}

\* The returned list holds exactly one pair (u, relation(t, u)) when that
\* strength is > 0, and no pair for u otherwise.
ListedIffPositive(pairs, t, u) ==
    LET s == get_relation(co, t, u)[1]
    IN IF Fgt(s, Zero)
       THEN Cardinality(PairsOf(pairs, u)) = 1 /\ \A i \in PairsOf(pairs, u) : pairs[i][2] = s
       ELSE PairsOf(pairs, u) = {}

\* C14: for a known term t, get_relations(t) returns exactly one pair
\* (u, s) for each vocabulary term u other than t whose strength
\* s = relation(t, u) is > 0, no pair for a term of strength 0, and no
\* pair for t itself.
C14_RelationsOfOthers ==
    (last.op = "get_relations" /\ last.out # None) =>
        /\ \A u \in Range(words) \ {last.a} : ListedIffPositive(last.out[1], last.a, u)
        /\ PairsOf(last.out[1], last.a) = {}

\* ------------------------------------------------- score lookup claims

\* Every neighbor named in an edge map is a node with an index into the
\* score vectors and an outgoing weight sum >= 1.
NeighborsResolved ==
    LET node_indexes == get_node_indexes(nodes)
        outs == get_outgoing_weight_sum(graph)
    IN \A n \in DOMAIN graph : \A u \in DOMAIN graph[n] :
           /\ u \in DOMAIN graph
           /\ u \in DOMAIN node_indexes
           /\ node_indexes[u] < Len(scores) /\ node_indexes[u] < Len(prev_scores)
           /\ u \in DOMAIN outs /\ outs[u] >= 1

\* C15: at every pass of the loop, every neighbor named in a node's edge
\* map is a node of the graph with an index in node_indexes (within the
\* score vector) and an outgoing weight sum >= 1; and for an empty word
\* list, a single word or window_size 0 the graph is empty, the loop exits
\* after one pass, and the score vector and the word-score map are empty.
C15_LookupsSafe ==
    GraphBuilt =>
        /\ NeighborsResolved
        /\ (Len(tr_words) <= 1 \/ tr_window = 0) => graph = << >>
        /\ graph = << >> =>
              /\ scores = << >>
              /\ pc = "loop" => iters = 0
              /\ pc \in {"converged", "done"} => iters = 1
              /\ pc = "done" => word_rank = << >>

\* C15 witness: the loop has made two or more passes over a graph of three
\* or more nodes whose outgoing weight sums differ.
C15_Witness ==
    /\ pc = "loop" /\ iters >= 2
    /\ Cardinality(DOMAIN graph) >= 3
    /\ \E n \in DOMAIN graph, k \in DOMAIN graph :
          get_outgoing_weight_sum(graph)[n] # get_outgoing_weight_sum(graph)[k]

\* ---------------------------------------------------- tokenizer claims

\* The words the pieces of the text clean to that are stopwords or punctuation.
Excluded == {w \in {clean_word(q) : q \in Pieces} :
                w \in TkStopwords \/ is_punctuation(w, TkPunctuation)}

\* C16: for every text and every phrase-length option (None, or Some(L)
\* for any L >= 0), the phrases returned are non-empty, hold no stopword and
\* no punctuation token, and with Some(L) have at most L words.
C16_PhrasesNonEmpty ==
    tk_pc = "done" =>
        \A i \in DOMAIN tk_phrases :
            /\ tk_phrases[i] # << >>
            /\ Range(tk_phrases[i]) \cap Excluded = {}
            /\ tk_length # None => Len(tk_phrases[i]) <= tk_length[1]

====
